---- MODULE Spec2Model ----
(***************************************************************************)
(* Model of process_and_plot_data.py: the station resolver, the CSV series *)
(* extractor, the 4-panel chart composer with its axis auto-scale, the     *)
(* per-folder main loop and the e-mail dispatch.                           *)
(*                                                                         *)
(* Encodings.                                                              *)
(*  - A Python string that the code indexes or searches is a sequence of   *)
(*    one-character strings; other strings are TLA+ strings.               *)
(*  - A Python optional (None or a value) is <<>> or <<value>>.            *)
(*  - A CSV field is a record [kind, n, s]: the text of a well-formed      *)
(*    "%Y-%m-%d %H:%M:%S" timestamp (kind "ts", n = the instant),          *)
(*    the text of a float literal (kind "num", n = the value) or any       *)
(*    other text (kind "txt", s = the text).                               *)
(*  - Instants are integers in units of 1/UnitsPerDay day.                 *)
(*  - Measured values are integers in tenths; axis bounds are integers in  *)
(*    thousandths, so value * 0.9 is value * 90 and value * 1.1 is         *)
(*    value * 110.                                                         *)
(***************************************************************************)
EXTENDS Integers, Sequences, FiniteSets, TLC

VARIABLES
    pc,            \* position of the script
    err,           \* the uncaught exception that ended the run, or "none"
    todo,          \* folders of glob("21*") not yet iterated
    csv,           \* the two CSV files of the current folder
    plot_options,  \* the PlotOptions object
    fig,           \* the figure written by the last savefig
    saved,         \* paths written by savefig, in order
    mail,          \* the send_via_email call in progress
    delivered,     \* messages accepted by sendmail, in order
    inp,           \* the input: what glob("21*") returned, or the argument of
                   \* the function under check (function specifications)
    ret            \* its result (function specifications)

vars == <<pc, err, todo, csv, plot_options, fig, saved, mail, delivered, inp, ret>>

-----------------------------------------------------------------------------
(* Bounds *)

\* data rows per CSV file
MaxRows == 2
\* folders matched by glob("21*")
MaxFolders == 2
\* pieces a folder name is built from in the resolver specification
MaxPieces == 3

-----------------------------------------------------------------------------
(* Optionals and CSV fields *)

None == <<>>

Some(v) == <<v>>

Ts(t) == [kind |-> "ts", n |-> t, s |-> ""]

Num(v) == [kind |-> "num", n |-> v, s |-> ""]

Txt(t) == [kind |-> "txt", n |-> 0, s |-> t]

\* 'data != "None"' is false only for the text None
IsNoneText(f) == f.kind = "txt" /\ f.s = "None"

\* datetime.strptime(text, "%Y-%m-%d %H:%M:%S"): only timestamp text parses
StrptimeOk(f) == f.kind = "ts"

\* float(text): only a float literal parses
FloatOk(f) == f.kind = "num"

\* units of time per day
UnitsPerDay == 2

\* timedelta.days: the whole days of a difference, rounded down
Days(delta) == delta \div UnitsPerDay

-----------------------------------------------------------------------------
(* name_from_port *)

RECURSIVE Concat(_)
Concat(ss) == IF ss = <<>> THEN <<>> ELSE Head(ss) \o Concat(Tail(ss))

\* Python's 'tok in s' on strings
Contains(s, tok) ==
    \E i \in 1..(Len(s) - Len(tok) + 1) : SubSeq(s, i, i + Len(tok) - 1) = tok

Tok2100 == <<"2", "1", "0", "0">>
Tok2101 == <<"2", "1", "0", "1">>
Tok2102 == <<"2", "1", "0", "2">>
Tok2103 == <<"2", "1", "0", "3">>
Tok2104 == <<"2", "1", "0", "4">>

Tokens == {Tok2100, Tok2101, Tok2102, Tok2103, Tok2104}

\* name_from_port with the test for "2103" moved before the test for "2102"
name_from_port_reordered(data_folder) ==
    IF Contains(data_folder, Tok2100) THEN Some("Nahuelbuta")
    ELSE IF Contains(data_folder, Tok2101) THEN Some("Santa_Gracia")
    ELSE IF Contains(data_folder, Tok2103) THEN Some("La_Campana")
    ELSE IF Contains(data_folder, Tok2102) THEN Some("Pan_de_Azucar")
    ELSE IF Contains(data_folder, Tok2104) THEN Some("Wanne_Tuebingen")
    ELSE None

name_from_port(data_folder) ==
    IF Contains(data_folder, Tok2100) THEN Some("Nahuelbuta")
    ELSE IF Contains(data_folder, Tok2101) THEN Some("Santa_Gracia")
    ELSE IF Contains(data_folder, Tok2102) THEN Some("Pan_de_Azucar")
    ELSE IF Contains(data_folder, Tok2103) THEN Some("La_Campana")
    ELSE IF Contains(data_folder, Tok2104) THEN Some("Wanne_Tuebingen")
    ELSE None

-----------------------------------------------------------------------------
(* data_from_csv *)

KnownNames ==
    {"wind_speed", "wind_max", "wind_direction", "battery_voltage",
     "air_temperature", "air_relative_humidity", "air_pressure",
     "solar_radiation", "soil_water_content", "soil_temperature",
     "precipitation", "li_battery_voltage"}

\* the zero-based column the if/elif chain selects; 0 when no branch matches
DataColumn(name) ==
    CASE name = "wind_speed" -> 7
      [] name = "wind_max" -> 8
      [] name = "wind_direction" -> 9
      [] name = "battery_voltage" -> 2
      [] name = "air_temperature" -> 2
      [] name = "air_relative_humidity" -> 3
      [] name = "air_pressure" -> 11
      [] name = "solar_radiation" -> 4
      [] name = "soil_water_content" -> 5
      [] name = "soil_temperature" -> 6
      [] name = "precipitation" -> 10
      [] name = "li_battery_voltage" -> 3
      [] OTHER -> 0

\* the 'Unknown data column' message is printed
LogsUnknown(name) == name \notin KnownNames

\* the window test with the boundary day left out
InWindowStrict(weekly, today, t) == weekly => Days(today - t) < 7

\* whether a row that parsed is looked at: the weekly window test
InWindow(weekly, today, t) == weekly => Days(today - t) <= 7

Ok(xs, ys) == [ok |-> TRUE, x_values |-> xs, y_values |-> ys, error |-> "none"]

Raise(e) == [ok |-> FALSE, x_values |-> <<>>, y_values |-> <<>>, error |-> e]

\* the loop with a "None" reading recorded as 0.0 instead of being dropped
RECURSIVE ReadRowsNoneAsZero(_, _, _, _, _, _)
ReadRowsNoneAsZero(rows, col, weekly, today, xs, ys) ==
    IF rows = <<>> THEN Ok(xs, ys)
    ELSE LET line == Head(rows) IN
         IF Len(line) < 1 THEN Raise("IndexError")
         ELSE IF ~StrptimeOk(line[1]) THEN Raise("ValueError")
         ELSE IF ~InWindow(weekly, today, line[1].n)
              THEN ReadRowsNoneAsZero(Tail(rows), col, weekly, today, xs, ys)
         ELSE IF Len(line) < col + 1 THEN Raise("IndexError")
         ELSE IF IsNoneText(line[col + 1])
              THEN ReadRowsNoneAsZero(Tail(rows), col, weekly, today,
                                      Append(xs, line[1].n), Append(ys, 0))
         ELSE IF ~FloatOk(line[col + 1]) THEN Raise("ValueError")
         ELSE ReadRowsNoneAsZero(Tail(rows), col, weekly, today,
                                 Append(xs, line[1].n), Append(ys, line[col + 1].n))

\* the 'for line in csv_file' loop over the rows after the two skipped lines;
\* a zero-based column c of the code is element c + 1 of the row
RECURSIVE ReadRows(_, _, _, _, _, _)
ReadRows(rows, col, weekly, today, xs, ys) ==
    IF rows = <<>> THEN Ok(xs, ys)
    ELSE LET line == Head(rows) IN
         IF Len(line) < 1 THEN Raise("IndexError")
         ELSE IF ~StrptimeOk(line[1]) THEN Raise("ValueError")
         ELSE IF ~InWindow(weekly, today, line[1].n)
              THEN ReadRows(Tail(rows), col, weekly, today, xs, ys)
         ELSE IF Len(line) < col + 1 THEN Raise("IndexError")
         ELSE IF IsNoneText(line[col + 1])
              THEN ReadRows(Tail(rows), col, weekly, today, xs, ys)
         ELSE IF ~FloatOk(line[col + 1]) THEN Raise("ValueError")
         ELSE ReadRows(Tail(rows), col, weekly, today,
                       Append(xs, line[1].n), Append(ys, line[col + 1].n))

\* data_from_csv on the lines of the file query[1] names; the two
\* csv_file.__next__() calls raise StopIteration on a file of fewer than 2 lines
data_from_csv(lines, name, weekly, today) ==
    IF Len(lines) < 2 THEN Raise("StopIteration")
    ELSE ReadRows(SubSeq(lines, 3, Len(lines)), DataColumn(name), weekly, today,
                  <<>>, <<>>)

-----------------------------------------------------------------------------
(* plot_data_4_plots *)

\* panels of plt.subplots(4, 1)
NumPanels == 4

RECURSIVE SeqMin(_)
SeqMin(xs) ==
    IF Len(xs) = 1 THEN xs[1]
    ELSE LET m == SeqMin(Tail(xs)) IN IF xs[1] < m THEN xs[1] ELSE m

RECURSIVE SeqMax(_)
SeqMax(xs) ==
    IF Len(xs) = 1 THEN xs[1]
    ELSE LET m == SeqMax(Tail(xs)) IN IF xs[1] > m THEN xs[1] ELSE m

\* [value for value in y_values[i] if value]
Truthy(v) == v # 0

NonZero(ys) == SelectSeq(ys, Truthy)

\* 'not plot_options.ymin[i]': None and 0.0 are both false
Falsy(bound) == bound = None \/ bound[1] = 0

\* the lower bound scaled by 0.9 whatever its sign
AutoMinOneFactor(ys) ==
    LET values == NonZero(ys)
        min_value == IF Len(values) > 0 THEN SeqMin(values) ELSE 0
    IN  min_value * 90

\* min_value * 0.9 if min_value > 0.0 else min_value * 1.1, in thousandths
AutoMin(ys) ==
    LET values == NonZero(ys)
        min_value == IF Len(values) > 0 THEN SeqMin(values) ELSE 0
    IN  IF min_value > 0 THEN min_value * 90 ELSE min_value * 110

\* max_value * 1.1 if max_value > 0.0 else max_value * 0.9, in thousandths
AutoMax(ys) ==
    LET values == NonZero(ys)
        max_value == IF Len(values) > 0 THEN SeqMax(values) ELSE 0
    IN  IF max_value > 0 THEN max_value * 110 ELSE max_value * 90

\* plot_options.ymin[i] after panel i has been processed
YminAfter(bound, ys) ==
    IF Len(ys) > 0 /\ Falsy(bound) THEN Some(AutoMin(ys)) ELSE bound

\* plot_options.ymax[i] after panel i has been processed
YmaxAfter(bound, ys) ==
    IF Len(ys) > 0 /\ Falsy(bound) THEN Some(AutoMax(ys)) ELSE bound

\* an axes object as plt.subplots creates it
BlankPanel == [line |-> "none", ylabel |-> None, ylim |-> None, grid |-> FALSE]

\* the body of 'for i, ax in enumerate(all_axes)' for one panel
Panel(weekly, label, ymin_i, ymax_i, ys) ==
    IF Len(ys) > 0
    THEN [line   |-> IF weekly THEN "-o" ELSE "-",
          ylabel |-> Some(label),
          ylim   |-> Some(<<YminAfter(ymin_i, ys)[1], YmaxAfter(ymax_i, ys)[1]>>),
          grid   |-> TRUE]
    ELSE BlankPanel

\* the lines of the file a query names, in the current folder
FileLines(file) ==
    IF file = "all_data_multiple.csv" THEN csv.multiple ELSE csv.battery

\* data_from_csv(plot_options, query) for panel i of the options o
Extract(o, i) ==
    data_from_csv(FileLines(o.queries[i][2]), o.queries[i][1], o.weekly, o.today)

\* the first panel whose extraction raises, or 0
FirstError(o) ==
    IF \E i \in 1..NumPanels : ~Extract(o, i).ok
    THEN CHOOSE i \in 1..NumPanels :
           /\ ~Extract(o, i).ok
           /\ \A j \in 1..(i - 1) : Extract(o, j).ok
    ELSE 0

\* the figure plot_data_4_plots draws from the options o
Figure(o) ==
    [title   |-> o.title,
     path    |-> o.file_path,
     locator |-> IF o.weekly THEN "daily" ELSE "10 days",
     panels  |-> [i \in 1..NumPanels |->
                    Panel(o.weekly, o.y_labels[i], o.ymin[i], o.ymax[i],
                          Extract(o, i).y_values)]]

\* the options object after plot_data_4_plots
OptionsAfter(o) ==
    [o EXCEPT !.ymin = [i \in 1..NumPanels |->
                          YminAfter(o.ymin[i], Extract(o, i).y_values)],
              !.ymax = [i \in 1..NumPanels |->
                          YmaxAfter(o.ymax[i], Extract(o, i).y_values)]]

\* str.format of a value that may be None
Format(x) == IF x = None THEN "None" ELSE x[1]

\* the path without the plot file name
FilePathNoStem(folder, station, stem, mode) ==
    folder \o <<"/", Format(station), "_", mode, ".png">>

\* "{}/{}_{}_full.png" and "{}/{}_{}_weekly.png"
FilePath(folder, station, stem, mode) ==
    folder \o <<"/", Format(station), "_", stem, "_", mode, ".png">>

-----------------------------------------------------------------------------
(* plot_data: the three plot groups *)

MULTIPLE == "all_data_multiple.csv"

BATTERY == "all_data_battery.csv"

\* the fields plot_data assigns before each pair of renderings;
\* bounds are in thousandths
Group(stem) ==
    CASE stem = "plot1" ->
           [queries  |-> << <<"wind_speed", MULTIPLE>>, <<"wind_max", MULTIPLE>>,
                            <<"wind_direction", MULTIPLE>>,
                            <<"battery_voltage", BATTERY>> >>,
            y_labels |-> <<"Wind Speed (180 min. Average), 3 m [$m/s$]",
                           "Wind Max, 3 m [$m/s$]",
                           "Wind Direction, 3 m [degrees]",
                           "Battery Voltage [V]">>,
            ymin     |-> <<Some(-1000), Some(-1000), Some(-10000), Some(-1000)>>,
            ymax     |-> <<Some(25000), Some(25000), Some(360000), Some(14000)>>]
      [] stem = "plot2" ->
           [queries  |-> << <<"air_temperature", MULTIPLE>>,
                            <<"air_relative_humidity", MULTIPLE>>,
                            <<"air_pressure", MULTIPLE>>,
                            <<"solar_radiation", MULTIPLE>> >>,
            y_labels |-> <<"Air Temperature, 2 m [deg C]",
                           "Air Rel. Humidity, 2 m [%]",
                           "Air Pressure [mbar]",
                           "Solar Radiation [$W/m^2$]">>,
            ymin     |-> <<Some(-10000), Some(-10000), None, Some(-100000)>>,
            ymax     |-> <<None, Some(110000), None, None>>]
      [] stem = "plot3" ->
           [queries  |-> << <<"soil_water_content", MULTIPLE>>,
                            <<"soil_temperature", MULTIPLE>>,
                            <<"precipitation", MULTIPLE>>,
                            <<"li_battery_voltage", BATTERY>> >>,
            y_labels |-> <<"Soil Water, 25 cm depth [$m^3/m^3$]",
                           "Soil Temperature, 25 cm depth [deg C]",
                           "Precipitation [mm]",
                           "Li Battery Voltage [V]">>,
            ymin     |-> <<Some(-5), Some(-5000), Some(-1000), Some(-1000)>>,
            ymax     |-> <<Some(600), Some(50000), None, Some(4000)>>]

Stems == {"plot1", "plot2", "plot3"}

\* PlotOptions.__init__ and the set-up of lines 301 to 305
NewPlotOptions(now) ==
    [queries        |-> <<"", "", "", "">>,
     y_labels       |-> <<"", "", "", "">>,
     ymin           |-> <<Some(0), Some(0), Some(0), Some(0)>>,
     ymax           |-> <<Some(0), Some(0), Some(0), Some(0)>>,
     today          |-> now,
     folder         |-> None,
     station_name   |-> None,
     plot_file_name |-> "",
     file_path      |-> <<>>,
     title          |-> <<>>,
     weekly         |-> FALSE]

NoFigure == [title |-> <<>>, path |-> <<>>, locator |-> "", panels |-> <<>>]

NoMail == [subject |-> "", files |-> <<>>, attached |-> <<>>, session |-> <<>>]

\* an uncaught exception ends the script
Crash(e) == pc' = "crashed" /\ err' = e

\* the loop head: lines 307 to 310, with the folder's two CSV files as found
NextFolder(files) ==
    /\ pc = "loop"
    /\ todo # <<>>
    /\ plot_options' = [plot_options EXCEPT
                          !.folder = Some(Head(todo)),
                          !.station_name = name_from_port(Head(todo))]
    /\ todo' = Tail(todo)
    /\ csv' = files
    /\ pc' = "plot1"
    /\ UNCHANGED <<err, fig, saved, mail, delivered, inp, ret>>

\* plot_data: the assignments before the next plot_data_full; pc names the
\* group plot_data has reached
SetupGroup ==
    /\ pc \in Stems
    /\ LET g == Group(pc)
       IN  plot_options' = [plot_options EXCEPT
                              !.plot_file_name = pc,
                              !.queries = g.queries,
                              !.y_labels = g.y_labels,
                              !.ymin = g.ymin,
                              !.ymax = g.ymax]
    /\ pc' = "full"
    /\ UNCHANGED <<err, todo, csv, fig, saved, mail, delivered, inp, ret>>

\* plot_data_4_plots with a failed extraction caught: the figure is skipped and
\* the script goes on
RenderIsolated(o, next) ==
    IF FirstError(o) # 0
    THEN /\ pc' = next
         /\ plot_options' = o
         /\ UNCHANGED <<err, fig, saved>>
    ELSE /\ fig' = Figure(o)
         /\ saved' = Append(saved, o.file_path)
         /\ plot_options' = OptionsAfter(o)
         /\ pc' = next
         /\ UNCHANGED err

\* plot_data_4_plots on the options o, continuing at 'next' when it returns
Render(o, next) ==
    IF FirstError(o) # 0
    THEN /\ Crash(Extract(o, FirstError(o)).error)
         /\ plot_options' = o
         /\ UNCHANGED <<fig, saved>>
    ELSE /\ fig' = Figure(o)
         /\ saved' = Append(saved, o.file_path)
         /\ plot_options' = OptionsAfter(o)
         /\ pc' = next
         /\ UNCHANGED err

TitleOf(o, what) == <<Format(o.station_name), what, o.today>>

PlotDataFull ==
    /\ pc = "full"
    /\ Render([plot_options EXCEPT
                 !.file_path = FilePath(plot_options.folder[1],
                                        plot_options.station_name,
                                        plot_options.plot_file_name, "full"),
                 !.title = TitleOf(plot_options, "Full Time Series"),
                 !.weekly = FALSE],
              "weekly")
    /\ UNCHANGED <<todo, csv, mail, delivered, inp, ret>>

\* where plot_data goes on after plot_data_weekly
AfterWeekly(stem) ==
    CASE stem = "plot1" -> "plot2"
      [] stem = "plot2" -> "plot3"
      [] OTHER -> "loop"

PlotDataWeekly ==
    /\ pc = "weekly"
    /\ Render([plot_options EXCEPT
                 !.file_path = FilePath(plot_options.folder[1],
                                        plot_options.station_name,
                                        plot_options.plot_file_name, "weekly"),
                 !.title = TitleOf(plot_options, "Last Week Time Series"),
                 !.weekly = TRUE],
              AfterWeekly(plot_options.plot_file_name))
    /\ UNCHANGED <<todo, csv, mail, delivered, inp, ret>>

-----------------------------------------------------------------------------
(* the e-mail dispatch *)

WeeklySubject == "Weather Stations: Last week data"

FullSubject == "Weather Stations: Full time series"

\* glob.glob("21*/*_weekly.png") and glob.glob("21*/*_full.png") over the
\* figures on disk; a path ends in <<mode, ".png">>
Glob(paths, mode) ==
    SelectSeq(paths, LAMBDA p : p[Len(p) - 1] = mode)

\* os.path.basename: what follows the last "/"
RECURSIVE Basename(_)
Basename(p) ==
    IF \E i \in 1..Len(p) : p[i] = "/"
    THEN Basename(Tail(p))
    ELSE p

\* lines 314 to 321: a missing section or key raises KeyError
ReadConfig(complete) ==
    /\ pc = "loop"
    /\ todo = <<>>
    /\ IF complete
       THEN pc' = "send_weekly" /\ UNCHANGED err
       ELSE Crash("KeyError")
    /\ UNCHANGED <<todo, csv, plot_options, fig, saved, mail, delivered, inp, ret>>

\* send_via_email is entered: lines 268 to 277
BeginSend(at, subject, mode) ==
    /\ pc = at
    /\ mail' = [subject  |-> subject,
                files    |-> Glob(saved, mode),
                attached |-> <<>>,
                session  |-> <<>>]
    /\ pc' = IF Glob(saved, mode) = <<>> THEN "connect" ELSE "attach"
    /\ UNCHANGED <<err, todo, csv, plot_options, fig, saved, delivered, inp, ret>>

SendWeekly == BeginSend("send_weekly", WeeklySubject, "weekly")

SendFull == BeginSend("send_full", FullSubject, "full")

\* the pass with an unreadable file left out of the message
AttachSkipping(readable) ==
    /\ pc = "attach"
    /\ mail' = [mail EXCEPT
                  !.files = Tail(mail.files),
                  !.attached = IF readable
                               THEN Append(mail.attached, Basename(Head(mail.files)))
                               ELSE mail.attached]
    /\ pc' = IF Tail(mail.files) = <<>> THEN "connect" ELSE "attach"
    /\ UNCHANGED <<err, todo, csv, plot_options, fig, saved, delivered, inp, ret>>

\* one pass of 'for path in gfx_files'; open or read may raise OSError
Attach(readable) ==
    /\ pc = "attach"
    /\ IF readable
       THEN /\ mail' = [mail EXCEPT
                          !.files = Tail(mail.files),
                          !.attached = Append(mail.attached,
                                              Basename(Head(mail.files)))]
            /\ pc' = IF Tail(mail.files) = <<>> THEN "connect" ELSE "attach"
            /\ UNCHANGED err
       ELSE Crash("OSError") /\ UNCHANGED mail
    /\ UNCHANGED <<todo, csv, plot_options, fig, saved, delivered, inp, ret>>

\* one SMTP call that changes the session: it succeeds or raises
SmtpStep(at, next, reached, succeeds, e) ==
    /\ pc = at
    /\ IF succeeds
       THEN /\ mail' = [mail EXCEPT !.session = Append(mail.session, reached)]
            /\ pc' = next
            /\ UNCHANGED err
       ELSE Crash(e) /\ UNCHANGED mail
    /\ UNCHANGED <<todo, csv, plot_options, fig, saved, delivered, inp, ret>>

\* smtplib.SMTP(email_config.server, 25)
Connect(succeeds) == SmtpStep("connect", "starttls", "connected", succeeds, "OSError")

\* smtp.starttls()
StartTls(succeeds) == SmtpStep("starttls", "login", "tls", succeeds, "SMTPException")

\* smtp.login(user, password)
Login(succeeds) ==
    SmtpStep("login", "sendmail", "authenticated", succeeds, "SMTPAuthenticationError")

\* smtp.sendmail(send_from, send_to, msg.as_string())
Sendmail(succeeds) ==
    /\ pc = "sendmail"
    /\ IF succeeds
       THEN /\ delivered' = Append(delivered,
                                   [subject     |-> mail.subject,
                                    attachments |-> mail.attached,
                                    session     |-> mail.session])
            /\ pc' = "quit"
            /\ UNCHANGED err
       ELSE Crash("SMTPException") /\ UNCHANGED delivered
    /\ UNCHANGED <<todo, csv, plot_options, fig, saved, mail, inp, ret>>

\* smtp.quit(), then the return to the script
Quit(succeeds) ==
    /\ pc = "quit"
    /\ IF succeeds
       THEN /\ pc' = IF mail.subject = WeeklySubject THEN "send_full" ELSE "done"
            /\ UNCHANGED err
       ELSE Crash("SMTPServerDisconnected")
    /\ UNCHANGED <<todo, csv, plot_options, fig, saved, mail, delivered, inp, ret>>

-----------------------------------------------------------------------------
(* Inputs: the run instant, CSV files, folder names *)

\* plot_options.today, the instant of datetime.datetime.now()
Today == 20

SeqsUpTo(S, n) == UNION {[1..k -> S] : k \in 0..n}

\* the header line and the units line
HeaderLines == << <<Txt("TIMESTAMP"), Txt("RECORD")>>, <<Txt("TS"), Txt("RN")>> >>

\* a row of all_data_multiple.csv: code columns 0 to 11, the even data columns
\* holding a and the odd ones b
DataRow(t, a, b) == <<t, Txt("1"), a, b, a, b, a, b, a, b, a, b>>

\* a row of all_data_battery.csv: code columns 0 to 3
BatteryRow(t, a, b) == <<t, Txt("1"), a, b>>

\* 8 days before the run, and half a day before it
Old == Today - 8 * UnitsPerDay
Recent == Today - 1

Readings == <<Txt("None"), Num(0), Num(-20), Num(30)>>

\* rows of the run specification: old and recent rows with positive, negative,
\* zero and missing readings, and a recent row whose last column is no number
RunRows ==
    {DataRow(Ts(Old), Num(30), Txt("None")),
     DataRow(Ts(Old), Num(-20), Num(30)),
     DataRow(Ts(Recent), Num(-20), Num(30)),
     DataRow(Ts(Recent), Num(0), Num(-20)),
     [DataRow(Ts(Recent), Num(30), Num(30)) EXCEPT ![12] = Txt("n/a")]}

\* all_data_multiple.csv as found: two header lines and up to MaxRows rows; or a
\* file cut off after its first line, one whose row is too short for the
\* column, one whose row has a malformed timestamp
RunMultipleFiles ==
    {HeaderLines \o rows : rows \in SeqsUpTo(RunRows, MaxRows)}
    \cup {<<HeaderLines[1]>>,
          HeaderLines \o << <<Ts(Recent), Txt("1"), Num(30)>> >>,
          HeaderLines \o <<DataRow(Txt("2024-13-01 00:00:00"), Num(30), Num(30))>>}

\* all_data_battery.csv as found
RunBatteryFiles ==
    {HeaderLines \o <<BatteryRow(Ts(Old), Num(120), Num(35)),
                      BatteryRow(Ts(Recent), Num(110), Txt("None"))>>}

\* folder names glob("21*") may match
FolderNames == {Tok2100, Tok2102, <<"2", "1", "9">>}

\* glob("21*"): distinct folders in any order
GlobResults ==
    {fs \in SeqsUpTo(FolderNames, MaxFolders) :
        \A i, j \in 1..Len(fs) : i # j => fs[i] # fs[j]}

\* rows of the extractor specification: ages on both sides of the 7-day window
\* (8, 7.5 and 7 days before the run, half a day after it)
ExtractRows ==
    {DataRow(Ts(t), Readings[k], Readings[(k % 4) + 1]) :
        t \in {Today - 16, Today - 15, Today - 14, Today + 1}, k \in {1, 4}}
    \cup {<<>>,
          <<Ts(Recent), Txt("1"), Num(30)>>,
          DataRow(Txt("2024-13-01 00:00:00"), Num(30), Num(30)),
          DataRow(Ts(Recent), Txt("n/a"), Txt("n/a"))}

ExtractFiles ==
    {HeaderLines \o rows : rows \in SeqsUpTo(ExtractRows, MaxRows)}
    \cup {<<>>, <<HeaderLines[1]>>}

QueryNames == KnownNames \cup {"wind_gust"}

\* pieces folder names are built from in the resolver specification
Pieces == Tokens \cup {<<"2", "1">>, <<"0">>, <<"2">>, <<"_">>, <<"9">>}

FolderStrings == {Concat(ps) : ps \in SeqsUpTo(Pieces, MaxPieces)}

-----------------------------------------------------------------------------
(* The script *)

NoCsv == [multiple |-> <<>>, battery |-> <<>>]

Init ==
    /\ pc = "loop"
    /\ err = "none"
    /\ todo \in GlobResults
    /\ csv = NoCsv
    /\ plot_options = NewPlotOptions(Today)
    /\ fig = NoFigure
    /\ saved = <<>>
    /\ mail = NoMail
    /\ delivered = <<>>
    /\ inp = todo
    /\ ret = <<>>

Next ==
    \/ \E m \in RunMultipleFiles, b \in RunBatteryFiles :
          NextFolder([multiple |-> m, battery |-> b])
    \/ SetupGroup
    \/ PlotDataFull
    \/ PlotDataWeekly
    \/ \E complete \in BOOLEAN : ReadConfig(complete)
    \/ SendWeekly
    \/ SendFull
    \/ \E readable \in BOOLEAN : Attach(readable)
    \/ \E succeeds \in BOOLEAN : Connect(succeeds)
    \/ \E succeeds \in BOOLEAN : StartTls(succeeds)
    \/ \E succeeds \in BOOLEAN : Login(succeeds)
    \/ \E succeeds \in BOOLEAN : Sendmail(succeeds)
    \/ \E succeeds \in BOOLEAN : Quit(succeeds)

Spec == Init /\ [][Next]_vars

-----------------------------------------------------------------------------
(* name_from_port on its own *)

InitResolver ==
    /\ pc = "call"
    /\ err = "none"
    /\ todo = <<>>
    /\ csv = NoCsv
    /\ plot_options = NewPlotOptions(Today)
    /\ fig = NoFigure
    /\ saved = <<>>
    /\ mail = NoMail
    /\ delivered = <<>>
    /\ inp \in FolderStrings
    /\ ret = <<>>

Resolve ==
    /\ pc = "call"
    /\ ret' = name_from_port(inp)
    /\ pc' = "returned"
    /\ UNCHANGED <<err, todo, csv, plot_options, fig, saved, mail, delivered, inp>>

SpecResolver == InitResolver /\ [][Resolve]_vars

-----------------------------------------------------------------------------
(* data_from_csv on its own *)

InitExtract ==
    /\ pc = "call"
    /\ err = "none"
    /\ todo = <<>>
    /\ csv = NoCsv
    /\ plot_options = NewPlotOptions(Today)
    /\ fig = NoFigure
    /\ saved = <<>>
    /\ mail = NoMail
    /\ delivered = <<>>
    /\ inp \in [lines : ExtractFiles, name : QueryNames, weekly : BOOLEAN]
    /\ ret = <<>>

ExtractSeries ==
    /\ pc = "call"
    /\ ret' = data_from_csv(inp.lines, inp.name, inp.weekly, plot_options.today)
    /\ pc' = "returned"
    /\ UNCHANGED <<err, todo, csv, plot_options, fig, saved, mail, delivered, inp>>

SpecExtract == InitExtract /\ [][ExtractSeries]_vars

-----------------------------------------------------------------------------
(* Properties of data_from_csv (SpecExtract) *)

\* the rows after the two header lines
DataRowsOf(lines) == SubSeq(lines, 3, Len(lines))

\* a row with a well-formed timestamp and a target column that holds a number
\* or the text None
ValidRow(row, col) ==
    /\ Len(row) >= col + 1
    /\ row[1].kind = "ts"
    /\ (row[col + 1].kind = "num" \/ row[col + 1] = Txt("None"))

\* C1: in full mode, for a known measurement name and a file of valid rows, the
\* result is two sequences of equal length holding exactly the rows after the
\* first 2 lines whose target column is not "None", in file order; the length
\* is the line count minus 2 minus the number of "None" rows.
C1_FullSeries ==
    (/\ pc = "returned"
     /\ ~inp.weekly
     /\ inp.name \in KnownNames
     /\ Len(inp.lines) >= 2
     /\ \A k \in 3..Len(inp.lines) : ValidRow(inp.lines[k], DataColumn(inp.name)))
    => LET c == DataColumn(inp.name) + 1
           kept == SelectSeq(DataRowsOf(inp.lines), LAMBDA r : r[c] # Txt("None"))
           nones == {k \in 3..Len(inp.lines) : inp.lines[k][c] = Txt("None")}
       IN  /\ ret.ok
           /\ Len(ret.x_values) = Len(ret.y_values)
           /\ Len(ret.y_values) = Len(inp.lines) - 2 - Cardinality(nones)
           /\ Len(ret.y_values) = Len(kept)
           /\ \A i \in 1..Len(kept) :
                 /\ ret.x_values[i] = kept[i][1].n
                 /\ ret.y_values[i] = kept[i][c].n

\* a full extraction that dropped a "None" row and kept another row
C1_Witness ==
    /\ pc = "returned"
    /\ ~inp.weekly
    /\ inp.name = "air_pressure"
    /\ Len(inp.lines) = 4
    /\ \A k \in 3..4 : ValidRow(inp.lines[k], 11)
    /\ inp.lines[3][12] = Txt("None")
    /\ ret.ok
    /\ Len(ret.y_values) = 1

\* C2: in weekly mode a row's timestamp T, the row having a target column that
\* is not "None", is in the returned Series iff the whole days (rounded down)
\* of today - T are at most 7; exactly 7 days before today is included.
C2_WeeklyWindow ==
    (pc = "returned" /\ inp.weekly /\ ret.ok)
    => LET c == DataColumn(inp.name) + 1
           InSeries(t) == \E i \in 1..Len(ret.x_values) : ret.x_values[i] = t
       IN  /\ \A k \in 3..Len(inp.lines) :
                 LET row == inp.lines[k] IN
                 (Len(row) >= c /\ row[1].kind = "ts" /\ row[c] # Txt("None"))
                 => (InSeries(row[1].n)
                       <=> (plot_options.today - row[1].n) \div UnitsPerDay <= 7)
           /\ \A t \in {plot_options.today - 7 * UnitsPerDay} :
                 (\E k \in 3..Len(inp.lines) :
                     LET row == inp.lines[k] IN
                     Len(row) >= c /\ row[1] = Ts(t) /\ row[c] # Txt("None"))
                 => InSeries(t)

\* a weekly extraction that kept a row exactly 7 days old and left out one 8
\* days old
C2_Witness ==
    /\ pc = "returned"
    /\ inp.weekly
    /\ inp.name = "air_temperature"
    /\ ret.ok
    /\ Len(inp.lines) = 4
    /\ inp.lines[3] = DataRow(Ts(Today - 8 * UnitsPerDay), Num(30), Txt("None"))
    /\ inp.lines[4] = DataRow(Ts(Today - 7 * UnitsPerDay), Num(30), Txt("None"))
    /\ ret.x_values = <<Today - 7 * UnitsPerDay>>

\* C3: for a measurement name that is not known, and a file of at least 2
\* lines, the extraction yields an empty Series.
C3_UnknownYieldsNothing ==
    (pc = "returned" /\ inp.name \notin KnownNames /\ Len(inp.lines) >= 2)
    => (ret.ok /\ ret.x_values = <<>> /\ ret.y_values = <<>>)

-----------------------------------------------------------------------------
(* Properties of name_from_port (SpecResolver) *)

\* C4 as stated: a folder name containing "2102" anywhere resolves to
\* Pan_de_Azucar, also when it contains another station token; one containing
\* none of the five tokens resolves to no label.
C4_AnywhereIsPanDeAzucar ==
    pc = "returned"
    => /\ Contains(inp, Tok2102) => ret = Some("Pan_de_Azucar")
       /\ (\A tok \in Tokens : ~Contains(inp, tok)) => ret = None

\* C4 amended: a folder name containing "2102" and neither "2100" nor "2101"
\* resolves to Pan_de_Azucar, also when it contains "2103" or "2104"; one
\* containing none of the five tokens resolves to no label.
C4_FirstMatch ==
    pc = "returned"
    => /\ (/\ Contains(inp, Tok2102)
           /\ ~Contains(inp, Tok2100)
           /\ ~Contains(inp, Tok2101)) => ret = Some("Pan_de_Azucar")
       /\ (\A tok \in Tokens : ~Contains(inp, tok)) => ret = None

\* a folder name with "2103" before "2102" resolved to Pan_de_Azucar
C4_Witness ==
    /\ pc = "returned"
    /\ inp = Tok2103 \o <<"_">> \o Tok2102
    /\ ret = Some("Pan_de_Azucar")

-----------------------------------------------------------------------------
(* Properties of the chart composer (Spec) *)

\* plot_data_4_plots has just returned: fig is the figure it drew from
\* plot_options and csv
JustRendered ==
    /\ pc \in {"weekly", "plot2", "plot3", "loop"}
    /\ fig # NoFigure
    /\ fig.path = plot_options.file_path

\* the values of panel i's Series in the rendering that has just returned
SeriesOf(i) == Extract(plot_options, i).y_values

\* m * 0.9 if m > 0 else m * 1.1, m the least non-zero value or 0.0
ExpectedMin(ys) ==
    LET nz == {ys[k] : k \in 1..Len(ys)} \ {0}
        m == IF nz = {} THEN 0 ELSE CHOOSE v \in nz : \A w \in nz : v <= w
    IN  IF m > 0 THEN m * 90 ELSE m * 110

\* M * 1.1 if M > 0 else M * 0.9, M the greatest non-zero value or 0.0
ExpectedMax(ys) ==
    LET nz == {ys[k] : k \in 1..Len(ys)} \ {0}
        m == IF nz = {} THEN 0 ELSE CHOOSE v \in nz : \A w \in nz : v >= w
    IN  IF m > 0 THEN m * 110 ELSE m * 90

\* a step in which plot_data_4_plots runs to its end
Rendering == pc \in {"full", "weekly"} /\ pc' # "crashed"

\* C5: when plot_data_4_plots draws a panel with a non-empty Series, a bound
\* that is unset on entry is applied as m * 0.9 if m > 0 else m * 1.1 (min) and
\* M * 1.1 if M > 0 else M * 0.9 (max) of the non-zero values, 0.0 if there are
\* none; a bound the Panel Spec gives as a literal is applied unchanged; the
\* values [-2.0, 3.0, 5.0] give -2.2 and 5.5.
C5_AutoScale ==
    [][Rendering =>
         /\ \A i \in 1..NumPanels :
               LET ys == Extract(plot_options', i).y_values
                   spec == Group(plot_options.plot_file_name)
               IN  Len(ys) > 0 =>
                     /\ fig'.panels[i].ylim # None
                     /\ plot_options.ymin[i] = None
                          => fig'.panels[i].ylim[1][1] = ExpectedMin(ys)
                     /\ plot_options.ymax[i] = None
                          => fig'.panels[i].ylim[1][2] = ExpectedMax(ys)
                     /\ spec.ymin[i] # None
                          => fig'.panels[i].ylim[1][1] = spec.ymin[i][1]
                     /\ spec.ymax[i] # None
                          => fig'.panels[i].ylim[1][2] = spec.ymax[i][1]
         /\ YminAfter(None, <<-20, 30, 50>>) = Some(-2200)
         /\ YmaxAfter(None, <<-20, 30, 50>>) = Some(5500)
    ]_vars

\* the full plot2 figure of a file with air pressure 3.0 and -2.0: the panel's
\* limits are -2.2 and 3.3, the fixed lower bound of panel 1 is kept
C5_Witness ==
    /\ pc = "weekly"
    /\ plot_options.plot_file_name = "plot2"
    /\ SeriesOf(3) = <<30, -20>>
    /\ fig.panels[3].ylim = Some(<<-2200, 3300>>)
    /\ fig.panels[1].ylim[1][1] = -10000

\* C9: in the weekly figure a bound the Panel Spec leaves unset is derived from
\* the values of the weekly Series of that rendering, not carried over from the
\* full rendering before it.
C9_WeeklyBoundsFromWeeklySeries ==
    (JustRendered /\ plot_options.weekly) =>
       \A i \in 1..NumPanels :
          LET spec == Group(plot_options.plot_file_name) IN
          Len(SeriesOf(i)) > 0 =>
            /\ spec.ymin[i] = None
                 => fig.panels[i].ylim[1][1] = ExpectedMin(SeriesOf(i))
            /\ spec.ymax[i] = None
                 => fig.panels[i].ylim[1][2] = ExpectedMax(SeriesOf(i))

\* C10: every figure has exactly 4 panels; a panel whose Series is empty has no
\* line drawn and still has its y-label, y-limits and grid applied.
C10_EmptyPanelFormatted ==
    JustRendered =>
       /\ Len(fig.panels) = 4
       /\ \A i \in 1..NumPanels :
             Len(SeriesOf(i)) = 0 =>
               /\ fig.panels[i].line = "none"
               /\ fig.panels[i].ylabel = Some(plot_options.y_labels[i])
               /\ fig.panels[i].ylim # None
               /\ fig.panels[i].grid

-----------------------------------------------------------------------------
(* Properties of the run (Spec) *)

\* the script is in send_via_email or past it
Dispatching ==
    pc \in {"send_weekly", "send_full", "attach", "connect", "starttls", "login",
            "sendmail", "quit", "done"}

\* the six paths of a folder, in the order plot_data saves them
SixPaths(folder) ==
    LET P(stem, mode) ==
          folder \o <<"/", Format(name_from_port(folder)), "_", stem, "_", mode, ".png">>
    IN  <<P("plot1", "full"), P("plot1", "weekly"),
          P("plot2", "full"), P("plot2", "weekly"),
          P("plot3", "full"), P("plot3", "weekly")>>

\* C6: in an error-free run six figures are saved for every folder glob
\* returned, at six pairwise distinct paths {folder}/{station}_{stem}_{full|
\* weekly}.png, each plot group full and then weekly; no dispatch starts before
\* the last folder's sixth figure is saved; the weekly set is dispatched before
\* the full set.
C6_RunOrder ==
    /\ (Dispatching \/ mail # NoMail \/ delivered # <<>>) =>
          /\ todo = <<>>
          /\ Len(saved) = 6 * Len(inp)
          /\ \A f \in 1..Len(inp) : \A k \in 1..6 :
                saved[6 * (f - 1) + k] = SixPaths(inp[f])[k]
          /\ \A i, j \in 1..Len(saved) : i # j => saved[i] # saved[j]
    /\ Len(delivered) <= 2
    /\ Len(delivered) >= 1 => delivered[1].subject = WeeklySubject
    /\ Len(delivered) = 2 => delivered[2].subject = FullSubject
    /\ mail.subject = FullSubject =>
          (Len(delivered) >= 1 /\ delivered[1].subject = WeeklySubject)
    /\ pc = "done" => (err = "none" /\ Len(delivered) = 2)

\* a finished run over two folders, one of them without a station label
C6_Witness ==
    /\ pc = "done"
    /\ Len(inp) = 2
    /\ \E f \in 1..2 : name_from_port(inp[f]) = None
    /\ Len(saved) = 12
    /\ Len(delivered) = 2

\* an extraction of the rendering that starts at pc raises
ExtractionFails ==
    \E i \in 1..NumPanels :
       ~Extract([plot_options EXCEPT !.weekly = (pc = "weekly")], i).ok

\* C7: when the extraction of a panel raises, the run ends there: the figure
\* is not saved, no later figure is saved (no step follows the crash), no
\* e-mail is sent, and the figures saved before remain.
C7_NoIsolation ==
    [][/\ pc # "crashed"
       /\ (pc \in {"full", "weekly"} /\ ExtractionFails) =>
             /\ pc' = "crashed"
             /\ err' \in {"StopIteration", "IndexError", "ValueError"}
             /\ saved' = saved
             /\ mail' = NoMail
             /\ delivered' = <<>>
    ]_vars

\* the second folder's air pressure column is no number: the run ended in
\* plot2 with that folder's two plot1 figures and the first folder's six saved
C7_Witness ==
    /\ pc = "crashed"
    /\ err = "ValueError"
    /\ Len(inp) = 2
    /\ todo = <<>>
    /\ plot_options.plot_file_name = "plot2"
    /\ Len(saved) = 8
    /\ delivered = <<>>

\* the mode of the figures a subject's dispatch attaches
ModeOf(subject) == IF subject = WeeklySubject THEN "weekly" ELSE "full"

\* C8: within one dispatch sendmail accepts the message at most once, and only
\* with every attachment file read and after connect, STARTTLS and login have
\* succeeded in that order; a failure of any of those steps ends the run with
\* nothing delivered for that dispatch.
C8_NoPartialSend ==
    /\ \A i, j \in 1..Len(delivered) :
          i # j => delivered[i].subject # delivered[j].subject
    /\ \A i \in 1..Len(delivered) :
          /\ delivered[i].session = <<"connected", "tls", "authenticated">>
          /\ Len(delivered[i].attachments)
               = Len(Glob(saved, ModeOf(delivered[i].subject)))
          /\ \A k \in 1..Len(delivered[i].attachments) :
                LET path == Glob(saved, ModeOf(delivered[i].subject))[k]
                    name == delivered[i].attachments[k]
                IN  /\ "/" \notin {name[n] : n \in 1..Len(name)}
                    /\ SubSeq(path, Len(path) - Len(name) + 1, Len(path)) = name
                    /\ path[Len(path) - Len(name)] = "/"
    /\ (pc = "crashed" /\ mail # NoMail /\ err # "SMTPServerDisconnected") =>
          \A i \in 1..Len(delivered) : delivered[i].subject # mail.subject
    /\ pc \in {"attach", "connect", "starttls", "login", "sendmail"} =>
          \A i \in 1..Len(delivered) : delivered[i].subject # mail.subject

\* the full-series dispatch failed at login after its files were read: the
\* weekly message is the only one delivered
C8_Witness ==
    /\ pc = "crashed"
    /\ err = "SMTPAuthenticationError"
    /\ mail.subject = FullSubject
    /\ Len(mail.attached) = 6
    /\ mail.session = <<"connected", "tls">>
    /\ Len(delivered) = 1
    /\ Len(delivered[1].attachments) = 6

====
